---- MODULE Spec2Model ----
(***************************************************************************)
(* Verification model of libdogecoin-rs: the safe Rust wrapper around the  *)
(* vendored libdogecoin C library.                                         *)
(*                                                                         *)
(* The wrapper (libdogecoin-rs/src/*.rs) is translated from its code.      *)
(* The native engine behind the sys:: calls (vendor/libdogecoin, compiled  *)
(* by libdogecoin-sys/build.rs) follows the specification of the           *)
(* Transaction Builder (spec 3, 4.6, 7).                                   *)
(***************************************************************************)
EXTENDS Integers, Sequences, FiniteSets, TLC

VARIABLES
    tx,         \* the native transaction behind the builder's tx_index
    last,       \* the last wrapper call on the builder and what it returned
    pc,         \* per thread: position inside a library entry point
    ncalls,     \* per thread: entry points completed
    onceWallet, \* static INIT of DogeWallet::new        (wallet.rs:14)
    onceEnsure, \* static INIT of ensure_ecc_started     (context.rs:7)
    eccStarts,  \* executions of sys::dogecoin_ecc_start
    ctxLive,    \* DogecoinContext values created and not yet dropped
    eccStops,   \* executions of sys::dogecoin_ecc_stop
    wallet,     \* the DogeWallet the caller holds: <<>> or <<w>>
    hd,         \* the HdWallet the caller holds: <<>> or <<h>>
    mn,         \* the Mnemonic the caller holds: <<>> or <<m>>
    mem,        \* secrets left readable in memory their owner has released
    table,      \* the native library's transactions, by handle
    builders    \* the DogeTransaction values of the caller, by slot

txvars  == <<tx, last>>
eccvars == <<pc, ncalls, onceWallet, onceEnsure, eccStarts, ctxLive, eccStops>>
keyvars == <<wallet, hd, mn, mem>>
bldvars == <<table, builders>>
vars    == <<tx, last, pc, ncalls, onceWallet, onceEnsure, eccStarts, ctxLive, eccStops,
             wallet, hd, mn, mem, table, builders>>

(***************************************************************************)
(* Bounds of the model.                                                    *)
(***************************************************************************)
MaxInputs  == 2
MaxOutputs == 1
NumThreads == 2
MaxCalls   == 2
NumBuilders == 2
MaxBuilderInputs == 1

(***************************************************************************)
(* Strings handed to the wrapper.  A token ending in <NUL> stands for a    *)
(* &str with an interior NUL byte.                                         *)
(***************************************************************************)
NulStrs    == {"t1<NUL>", "D1<NUL>", "1<NUL>", "k1<NUL>", "s1<NUL>",
               "sig<NUL>", "he<NUL>llo", "128<NUL>", "abandon<NUL>about",
               "pass<NUL>", "dgpv<NUL>", "m/0<NUL>"}
TxidArgs   == {"t1", "t2", "nothex", "t1<NUL>"}
AddrArgs   == {"D1", "D2", "garbage", "D1<NUL>"}
AmountArgs == {"0", "1", "2", "abc", "1<NUL>"}
KeyArgs    == {"k1", "k2", "badwif", "k1<NUL>"}
ScriptArgs == {"s1", "s2", "s1<NUL>"}
VoutArgs   == {0}
NoneOpt    == "<None>"
NULLPTR    == "<null>"
NoSig      == "unsigned"

\* CString::new(s): Err exactly when s has an interior NUL byte.
CStringNewIsErr(s) == s \in NulStrs

(***************************************************************************)
(* The ledger the UTXOs live on (spec 3, Utxo): value in the smallest      *)
(* unit, spending script and originating address of each outpoint.         *)
(***************************************************************************)
UtxoValue(txid)  == IF txid = "t1" THEN 2 ELSE 1
UtxoScript(txid) == IF txid = "t1" THEN "s1" ELSE "s2"
UtxoOrigin(txid) == IF txid = "t1" THEN "D1" ELSE "D2"

(***************************************************************************)
(* Native engine, from the specification.                                  *)
(***************************************************************************)
WellFormedTxid(s) == s \in {"t1", "t2"}
\* WIF private keys: k1, k2 of the main network, c1, c2 of the test network
WifKeys           == {"k1", "k2", "c1", "c2"}
ValidWif(s)       == s \in WifKeys

\* coins string -> amount in the smallest unit; -1 when it does not parse
coins_to_koinu_str(s) ==
    CASE s = "0" -> 0
      [] s = "1" -> 1
      [] s = "2" -> 2
      [] OTHER   -> -1

\* sys::verifyP2pkhAddress: Base58Check decode + version byte check, 1 or 0
verifyP2pkhAddress(s) == IF s \in {"D1", "D2", "n1", "n2"} THEN 1 ELSE 0

RECURSIVE SumAmounts(_)
SumAmounts(outs) ==
    IF outs = <<>> THEN 0 ELSE Head(outs).amount + SumAmounts(Tail(outs))

RECURSIVE SumValues(_)
SumValues(ins) ==
    IF ins = <<>> THEN 0 ELSE UtxoValue(Head(ins).txid) + SumValues(Tail(ins))

AllSigned(t) == \A i \in 1..Len(t.sigs) : t.sigs[i] # NoSig
AnySigned(t) == \E i \in 1..Len(t.sigs) : t.sigs[i] # NoSig
IsFrozen(t)  == t.state \in {"Finalized", "Signed"}

NativeRet(t, ret, err) == [tx |-> t, ret |-> ret, err |-> err]

\* sys::start_transaction
start_transaction ==
    [inputs |-> <<>>, outputs |-> <<>>, sigs |-> <<>>, state |-> "Empty", fee |-> 0]

\* sys::add_utxo
native_add_utxo(t, txid, vout) ==
    IF IsFrozen(t) THEN NativeRet(t, 0, "InvalidState")
    ELSE IF ~WellFormedTxid(txid) THEN NativeRet(t, 0, "InvalidTxid")
    ELSE NativeRet([t EXCEPT !.inputs = Append(@, [txid |-> txid, vout |-> vout]),
                             !.sigs   = Append(@, NoSig),
                             !.state  = "Accumulating"], 1, "Ok")

\* sys::add_output
native_add_output(t, address, amount) ==
    IF IsFrozen(t) THEN NativeRet(t, 0, "InvalidState")
    ELSE IF verifyP2pkhAddress(address) # 1 THEN NativeRet(t, 0, "InvalidAddress")
    ELSE IF coins_to_koinu_str(amount) <= 0 THEN NativeRet(t, 0, "InvalidEncoding")
    ELSE NativeRet([t EXCEPT !.outputs = Append(@, [address |-> address,
                                                    amount  |-> coins_to_koinu_str(amount)]),
                             !.state   = "Accumulating"], 1, "Ok")

\* sys::finalize_transaction; amount is the resolved total input value the
\* caller hands in, change is an address or NULLPTR
native_finalize_transaction(t, destination, fee, amount, change) ==
    LET f      == coins_to_koinu_str(fee)
        total  == coins_to_koinu_str(amount)
        rem    == total - SumAmounts(t.outputs) - f
        chaddr == IF change # NULLPTR THEN change
                  ELSE IF t.inputs # <<>> THEN UtxoOrigin(t.inputs[1].txid)
                  ELSE NULLPTR
    IN  IF IsFrozen(t) THEN NativeRet(t, NULLPTR, "InvalidState")
        ELSE IF f < 0 \/ total < 0 THEN NativeRet(t, NULLPTR, "InvalidEncoding")
        ELSE IF rem < 0 THEN NativeRet(t, NULLPTR, "InsufficientFunds")
        ELSE IF rem > 0 /\ verifyP2pkhAddress(chaddr) # 1
             THEN NativeRet(t, NULLPTR, "InvalidAddress")
        ELSE NativeRet([t EXCEPT !.outputs = IF rem > 0
                                             THEN Append(@, [address |-> chaddr, amount |-> rem])
                                             ELSE @,
                                 !.fee     = f,
                                 !.state   = "Finalized"], "rawtx", "Ok")

StateAfterSign(sigs) ==
    IF \A i \in 1..Len(sigs) : sigs[i] # NoSig THEN "Signed" ELSE "Finalized"

\* sys::sign_transaction_w_privkey
native_sign_transaction_w_privkey(t, index, key) ==
    IF ~IsFrozen(t) THEN NativeRet(t, 0, "InvalidState")
    ELSE IF index < 0 \/ index >= Len(t.inputs) THEN NativeRet(t, 0, "IndexOutOfRange")
    ELSE IF ~ValidWif(key) THEN NativeRet(t, 0, "SigningFailed")
    ELSE LET s == [t.sigs EXCEPT ![index + 1] = key]
         IN  NativeRet([t EXCEPT !.sigs = s, !.state = StateAfterSign(s)], 1, "Ok")

\* sys::sign_transaction: signs the inputs whose UTXO carries script_pubkey
native_sign_transaction(t, script, key) ==
    LET hit == {i \in 1..Len(t.inputs) : UtxoScript(t.inputs[i].txid) = script}
        s   == [i \in 1..Len(t.sigs) |-> IF i \in hit THEN key ELSE t.sigs[i]]
    IN  IF ~IsFrozen(t) THEN NativeRet(t, 0, "InvalidState")
        ELSE IF hit = {} THEN NativeRet(t, 0, "IndexOutOfRange")
        ELSE IF ~ValidWif(key) THEN NativeRet(t, 0, "SigningFailed")
        ELSE NativeRet([t EXCEPT !.sigs = s, !.state = StateAfterSign(s)], 1, "Ok")

\* sys::get_raw_transaction: the wire format, refused while an input is unsigned
native_get_raw_transaction(t) ==
    IF AllSigned(t) THEN NativeRet(t, "rawtx", "Ok")
    ELSE NativeRet(t, NULLPTR, "IncompleteTransaction")

(***************************************************************************)
(* The Address Classifier of the wrapper: AddressUtils (address.rs).       *)
(***************************************************************************)
is_valid_p2pkh(address) ==
    IF address = "" THEN FALSE
    ELSE IF CStringNewIsErr(address) THEN FALSE
    ELSE verifyP2pkhAddress(address) = 1

(***************************************************************************)
(* The wrapper: DogeTransaction (transaction.rs).                          *)
(***************************************************************************)
Call(op, args, res, err) == [op |-> op, args |-> args, res |-> res, err |-> err]

\* .expect(..) on a CString::new error: the call panics before the native call
Panics(op, args) ==
    /\ tx' = tx
    /\ last' = Call(op, args, "Panic", "Panic")

\* result == 1
BoolOfInt(r) == IF r = 1 THEN "true" ELSE "false"

\* if result.is_null() { None } else { Some(..) }
OptionOfPtr(p) == IF p = NULLPTR THEN "None" ELSE "Some"

add_utxo(txid, vout) ==
    LET args == <<txid, vout>>
        r    == native_add_utxo(tx, txid, vout)
    IN  IF CStringNewIsErr(txid) THEN Panics("add_utxo", args)
        ELSE /\ tx' = r.tx
             /\ last' = Call("add_utxo", args, BoolOfInt(r.ret), r.err)

add_output(address, amount) ==
    LET args == <<address, amount>>
        r    == native_add_output(tx, address, amount)
    IN  IF CStringNewIsErr(address) \/ CStringNewIsErr(amount)
        THEN Panics("add_output", args)
        ELSE /\ tx' = r.tx
             /\ last' = Call("add_output", args, BoolOfInt(r.ret), r.err)

\* the verification amount handed to the native call is the placeholder "0"
VerificationAmount == "0"

finalize(destination, fee, change_address) ==
    LET args       == <<destination, fee, change_address>>
        change_ptr == IF change_address = NoneOpt THEN NULLPTR ELSE change_address
        r          == native_finalize_transaction(tx, destination, fee,
                                                  VerificationAmount, change_ptr)
    IN  IF \/ CStringNewIsErr(destination)
           \/ CStringNewIsErr(fee)
           \/ (change_address # NoneOpt /\ CStringNewIsErr(change_address))
        THEN Panics("finalize", args)
        ELSE /\ tx' = r.tx
             /\ last' = Call("finalize", args, OptionOfPtr(r.ret), r.err)

sign(script_pubkey, privkey) ==
    LET args == <<script_pubkey, privkey>>
        r    == native_sign_transaction(tx, script_pubkey, privkey)
    IN  IF CStringNewIsErr(script_pubkey) \/ CStringNewIsErr(privkey)
        THEN Panics("sign", args)
        ELSE /\ tx' = r.tx
             /\ last' = Call("sign", args, BoolOfInt(r.ret), r.err)

sign_with_privkey(vout_index, privkey) ==
    LET args == <<vout_index, privkey>>
        r    == native_sign_transaction_w_privkey(tx, vout_index, privkey)
    IN  IF CStringNewIsErr(privkey) THEN Panics("sign_with_privkey", args)
        ELSE /\ tx' = r.tx
             /\ last' = Call("sign_with_privkey", args, BoolOfInt(r.ret), r.err)

\* get_raw without the is_null() test
get_raw_unchecked ==
    LET r == native_get_raw_transaction(tx)
    IN  /\ tx' = r.tx
        /\ last' = Call("get_raw", <<>>, "Some", r.err)

get_raw ==
    LET r == native_get_raw_transaction(tx)
    IN  /\ tx' = r.tx
        /\ last' = Call("get_raw", <<>>, OptionOfPtr(r.ret), r.err)

(***************************************************************************)
(* One builder session: calls on a DogeTransaction after new().            *)
(***************************************************************************)
AddUtxo ==
    /\ Len(tx.inputs) < MaxInputs
    /\ \E txid \in TxidArgs, vout \in VoutArgs : add_utxo(txid, vout)
    /\ UNCHANGED <<eccvars, keyvars, bldvars>>

AddOutput ==
    /\ Len(tx.outputs) < MaxOutputs
    /\ \E address \in AddrArgs, amount \in AmountArgs : add_output(address, amount)
    /\ UNCHANGED <<eccvars, keyvars, bldvars>>

Finalize ==
    /\ \E destination \in AddrArgs, fee \in AmountArgs,
          change_address \in AddrArgs \cup {NoneOpt} :
            finalize(destination, fee, change_address)
    /\ UNCHANGED <<eccvars, keyvars, bldvars>>

Sign ==
    /\ \E script_pubkey \in ScriptArgs, privkey \in KeyArgs : sign(script_pubkey, privkey)
    /\ UNCHANGED <<eccvars, keyvars, bldvars>>

SignWithPrivkey ==
    /\ \E vout_index \in (-1)..MaxInputs, privkey \in KeyArgs :
            sign_with_privkey(vout_index, privkey)
    /\ UNCHANGED <<eccvars, keyvars, bldvars>>

GetRaw ==
    /\ get_raw
    /\ UNCHANGED <<eccvars, keyvars, bldvars>>

TxInit ==
    /\ tx = start_transaction
    /\ last = [op |-> "new", args |-> <<>>, res |-> "Ok", err |-> "Ok"]

EccInit ==
    /\ pc = [t \in 1..NumThreads |-> "idle"]
    /\ ncalls = [t \in 1..NumThreads |-> 0]
    /\ onceWallet = "incomplete"
    /\ onceEnsure = "incomplete"
    /\ eccStarts = 0
    /\ ctxLive = 0
    /\ eccStops = 0

KeyInit ==
    /\ wallet = <<>>
    /\ hd = <<>>
    /\ mn = <<>>
    /\ mem = {}

\* no DogeTransaction constructed yet besides the one of tx; the native
\* library holds no transaction under any handle
BldInit ==
    /\ table = [h \in 1..NumBuilders |-> <<>>]
    /\ builders = [b \in 1..NumBuilders |-> [live |-> FALSE, tx_index |-> 0]]

Init == TxInit /\ EccInit /\ KeyInit /\ BldInit

(***************************************************************************)
(* First use of the library from several threads (context.rs, wallet.rs).  *)
(* std::sync::Once: call_once runs the closure when the Once is            *)
(* incomplete, waits while another thread runs it, returns when complete.  *)
(***************************************************************************)
Threads == 1..NumThreads

Return(t) ==
    /\ pc' = [pc EXCEPT ![t] = "idle"]
    /\ ncalls' = [ncalls EXCEPT ![t] = @ + 1]

\* sys::dogecoin_ecc_start
dogecoin_ecc_start == eccStarts' = eccStarts + 1

\* DogeWallet::new: INIT.call_once on the static of wallet.rs
WalletNew(t) ==
    /\ pc[t] = "idle" /\ ncalls[t] < MaxCalls
    /\ \/ /\ onceWallet = "incomplete"
          /\ onceWallet' = "running"
          /\ pc' = [pc EXCEPT ![t] = "wallet_closure"]
          /\ UNCHANGED ncalls
       \/ /\ onceWallet = "complete"
          /\ Return(t)
          /\ UNCHANGED onceWallet
    /\ UNCHANGED <<onceEnsure, eccStarts, ctxLive, eccStops, txvars, keyvars, bldvars>>

\* the closure of DogeWallet::new's call_once
WalletClosure(t) ==
    /\ pc[t] = "wallet_closure"
    /\ dogecoin_ecc_start
    /\ onceWallet' = "complete"
    /\ Return(t)
    /\ UNCHANGED <<onceEnsure, ctxLive, eccStops, txvars, keyvars, bldvars>>

\* ensure_ecc_started, entered from HdWallet, Mnemonic and Message
EnsureEccStarted(t) ==
    /\ pc[t] = "idle" /\ ncalls[t] < MaxCalls
    /\ \/ /\ onceEnsure = "incomplete"
          /\ onceEnsure' = "running"
          /\ pc' = [pc EXCEPT ![t] = "ensure_closure"]
          /\ UNCHANGED ncalls
       \/ /\ onceEnsure = "complete"
          /\ Return(t)
          /\ UNCHANGED onceEnsure
    /\ UNCHANGED <<onceWallet, eccStarts, ctxLive, eccStops, txvars, keyvars, bldvars>>

\* the closure of ensure_ecc_started's call_once
EnsureClosure(t) ==
    /\ pc[t] = "ensure_closure"
    /\ dogecoin_ecc_start
    /\ onceEnsure' = "complete"
    /\ Return(t)
    /\ UNCHANGED <<onceWallet, ctxLive, eccStops, txvars, keyvars, bldvars>>

\* DogecoinContext::new (both crates): starts the context unconditionally
ContextNew(t) ==
    /\ pc[t] = "idle" /\ ncalls[t] < MaxCalls
    /\ dogecoin_ecc_start
    /\ ctxLive' = ctxLive + 1
    /\ Return(t)
    /\ UNCHANGED <<onceWallet, onceEnsure, eccStops, txvars, keyvars, bldvars>>

\* sys::dogecoin_ecc_stop
dogecoin_ecc_stop == eccStops' = eccStops + 1

\* Drop for DogecoinContext (both crates): stops the context unconditionally
ContextDrop(t) ==
    /\ pc[t] = "idle"
    /\ ctxLive > 0
    /\ dogecoin_ecc_stop
    /\ ctxLive' = ctxLive - 1
    /\ UNCHANGED <<pc, ncalls, onceWallet, onceEnsure, eccStarts, txvars, keyvars, bldvars>>

\* the process ends once no thread is inside the library; statics are not dropped
ProcessExit ==
    /\ \A t \in Threads : pc[t] = "idle"
    /\ pc' = [t \in Threads |-> "exited"]
    /\ UNCHANGED <<ncalls, onceWallet, onceEnsure, eccStarts, ctxLive, eccStops,
                   txvars, keyvars, bldvars>>

Exited == \A t \in Threads : pc[t] = "exited"

NextEcc ==
    \/ \E t \in Threads :
        \/ WalletNew(t)
        \/ WalletClosure(t)
        \/ EnsureEccStarted(t)
        \/ EnsureClosure(t)
        \/ ContextNew(t)
        \/ ContextDrop(t)
    \/ ProcessExit

SpecEcc == Init /\ [][NextEcc]_vars

NextTx == AddUtxo \/ AddOutput \/ Finalize \/ Sign \/ SignWithPrivkey \/ GetRaw

SpecTx == Init /\ [][NextTx]_vars

(***************************************************************************)
(* Several DogeTransaction values of one caller.  The native library keeps *)
(* its transactions in a table by handle; a DogeTransaction is its         *)
(* tx_index.  A call names a handle and works on the transaction under it. *)
(***************************************************************************)
Slots   == 1..NumBuilders
Handles == 1..NumBuilders

Allocated(tbl, h) == h \in Handles /\ tbl[h] # <<>>

\* sys::clear_transaction: the handle holds no transaction afterwards
clear_transaction(tbl, h) ==
    IF h \in Handles THEN [tbl EXCEPT ![h] = <<>>] ELSE tbl

\* what a wrapper call returns and leaves under the handle
BRet(t, res, err) == [tx |-> t, res |-> res, err |-> err]

\* the methods of DogeTransaction on the transaction t under self.tx_index
DogeTransaction_call(t, op, a) ==
    CASE op = "add_utxo" ->
            IF CStringNewIsErr(a[1]) THEN BRet(t, "Panic", "Panic")
            ELSE LET r == native_add_utxo(t, a[1], a[2])
                 IN  BRet(r.tx, BoolOfInt(r.ret), r.err)
      [] op = "add_output" ->
            IF CStringNewIsErr(a[1]) \/ CStringNewIsErr(a[2]) THEN BRet(t, "Panic", "Panic")
            ELSE LET r == native_add_output(t, a[1], a[2])
                 IN  BRet(r.tx, BoolOfInt(r.ret), r.err)
      [] op = "finalize" ->
            IF \/ CStringNewIsErr(a[1]) \/ CStringNewIsErr(a[2])
               \/ (a[3] # NoneOpt /\ CStringNewIsErr(a[3]))
            THEN BRet(t, "Panic", "Panic")
            ELSE LET r == native_finalize_transaction(t, a[1], a[2], VerificationAmount,
                              IF a[3] = NoneOpt THEN NULLPTR ELSE a[3])
                 IN  BRet(r.tx, OptionOfPtr(r.ret), r.err)
      [] op = "sign" ->
            IF CStringNewIsErr(a[1]) \/ CStringNewIsErr(a[2]) THEN BRet(t, "Panic", "Panic")
            ELSE LET r == native_sign_transaction(t, a[1], a[2])
                 IN  BRet(r.tx, BoolOfInt(r.ret), r.err)
      [] op = "sign_with_privkey" ->
            IF CStringNewIsErr(a[2]) THEN BRet(t, "Panic", "Panic")
            ELSE LET r == native_sign_transaction_w_privkey(t, a[1], a[2])
                 IN  BRet(r.tx, BoolOfInt(r.ret), r.err)
      [] op = "get_raw" ->
            LET r == native_get_raw_transaction(t)
            IN  BRet(r.tx, OptionOfPtr(r.ret), r.err)

\* the handle a method of DogeTransaction hands to the native call
HandleOf(self) == self.tx_index

\* Drop for DogeTransaction with no clear_transaction call
DogeTransaction_drop_forget(tbl, self) == tbl

\* Drop for DogeTransaction
DogeTransaction_drop(tbl, self) == clear_transaction(tbl, HandleOf(self))

\* a call of the caller on the DogeTransaction of a slot
BCall(op, args, r, slot, was_allocated) ==
    [op |-> op, args |-> args, res |-> r.res, err |-> r.err,
     slot |-> slot, handle |-> HandleOf(builders[slot]), allocated |-> was_allocated]

\* a method call on the builder of slot b; a native call on a handle that
\* holds no transaction returns failure
OnBuilder(b, op, args) ==
    LET h == HandleOf(builders[b])
        r == IF Allocated(table, h) THEN DogeTransaction_call(table[h][1], op, args)
             ELSE BRet(<<>>, IF op \in {"finalize", "get_raw"} THEN "None" ELSE "false",
                       "InvalidState")
    IN  /\ builders[b].live
        /\ table' = IF Allocated(table, h) THEN [table EXCEPT ![h] = <<r.tx>>] ELSE table
        /\ last' = BCall(op, args, r, b, Allocated(table, h))
        /\ UNCHANGED <<tx, eccvars, keyvars, builders>>

\* the handles sys::start_transaction may hand out: any that holds no transaction
FreeHandles(tbl) == {h \in Handles : tbl[h] = <<>>}

\* DogeTransaction::new
BuilderNew(b) ==
    /\ ~builders[b].live
    /\ \E h \in FreeHandles(table) :
        /\ table' = [table EXCEPT ![h] = <<start_transaction>>]
        /\ builders' = [builders EXCEPT ![b] = [live |-> TRUE, tx_index |-> h]]
        /\ last' = [op |-> "new", args |-> <<>>, res |-> "Ok", err |-> "Ok",
                    slot |-> b, handle |-> h, allocated |-> FALSE]
    /\ UNCHANGED <<tx, eccvars, keyvars>>

BuilderAddUtxo(b) ==
    /\ Allocated(table, HandleOf(builders[b]))
            => Len(table[HandleOf(builders[b])][1].inputs) < MaxBuilderInputs
    /\ \E txid \in {"t1", "t1<NUL>"} : OnBuilder(b, "add_utxo", <<txid, 0>>)

BuilderAddOutput(b) ==
    /\ Allocated(table, HandleOf(builders[b]))
            => Len(table[HandleOf(builders[b])][1].outputs) < MaxOutputs
    /\ OnBuilder(b, "add_output", <<"D1", "1">>)

BuilderFinalize(b) == OnBuilder(b, "finalize", <<"D1", "0", NoneOpt>>)

BuilderSign(b) == OnBuilder(b, "sign", <<"s1", "k1">>)

BuilderSignWithPrivkey(b) == OnBuilder(b, "sign_with_privkey", <<0, "k1">>)

BuilderGetRaw(b) == OnBuilder(b, "get_raw", <<>>)

\* the DogeTransaction of slot b goes out of scope: Drop runs, once
BuilderDrop(b) ==
    /\ builders[b].live
    /\ table' = DogeTransaction_drop(table, builders[b])
    /\ builders' = [builders EXCEPT ![b] = [live |-> FALSE, tx_index |-> 0]]
    /\ last' = [op |-> "drop", args |-> <<>>, res |-> "", err |-> "",
                slot |-> b, handle |-> HandleOf(builders[b]),
                allocated |-> Allocated(table, HandleOf(builders[b]))]
    /\ UNCHANGED <<tx, eccvars, keyvars>>

NextBuilders ==
    \E b \in Slots :
        \/ BuilderNew(b)
        \/ BuilderAddUtxo(b)
        \/ BuilderAddOutput(b)
        \/ BuilderFinalize(b)
        \/ BuilderSign(b)
        \/ BuilderSignWithPrivkey(b)
        \/ BuilderGetRaw(b)
        \/ BuilderDrop(b)

SpecBuilders == Init /\ [][NextBuilders]_vars

(***************************************************************************)
(* Key Material, Address Classifier and Message Signer: one caller using   *)
(* DogeWallet (wallet.rs), AddressUtils (address.rs), Message (message.rs).*)
(***************************************************************************)
NumSeeds == 2

AddrInputs == {"D1", "D2", "n1", "n2", "", "garbage", "D1<NUL>", "Dbadsum", "nbadsum", "A1"}
MsgInputs  == {"hello", "different", "", "he<NUL>llo"}
WifInputs  == {"k1", "c1", "badwif", "k1<NUL>"}

\* to_address: the P2PKH address of a key
P2pkhOf(k) ==
    CASE k = "k1" -> "D1"
      [] k = "k2" -> "D2"
      [] k = "c1" -> "n1"
      [] k = "c2" -> "n2"

\* first character of a Base58 string
B58Prefix(s) ==
    CASE s \in {"D1", "D2", "Dbadsum", "D1<NUL>"} -> "D"
      [] s \in {"n1", "n2", "nbadsum"}            -> "n"
      [] s = "A1"                                 -> "A"
      [] s = "garbage"                            -> "g"
      [] OTHER                                    -> ""

\* sys::isTestnetFromB58Prefix / sys::isMainnetFromB58Prefix
isTestnetFromB58Prefix(s) == IF B58Prefix(s) = "n" THEN 1 ELSE 0
isMainnetFromB58Prefix(s) == IF B58Prefix(s) = "D" THEN 1 ELSE 0

\* AddressUtils::network without the is_valid_p2pkh test
network_by_prefix(address) ==
    IF CStringNewIsErr(address) THEN "Unknown"
    ELSE IF isTestnetFromB58Prefix(address) # 0 THEN "Testnet"
    ELSE IF isMainnetFromB58Prefix(address) # 0 THEN "Mainnet"
    ELSE "Unknown"

\* AddressUtils::network
network(address) ==
    IF ~is_valid_p2pkh(address) THEN "Unknown"
    ELSE IF CStringNewIsErr(address) THEN "Unknown"
    ELSE IF isTestnetFromB58Prefix(address) # 0 THEN "Testnet"
    ELSE IF isMainnetFromB58Prefix(address) # 0 THEN "Mainnet"
    ELSE "Unknown"

\* the call_once of DogeWallet::new and ensure_ecc_started, on one thread
wallet_init_once ==
    IF onceWallet = "incomplete"
    THEN onceWallet' = "complete" /\ eccStarts' = eccStarts + 1
    ELSE UNCHANGED <<onceWallet, eccStarts>>

ensure_ecc_started ==
    IF onceEnsure = "incomplete"
    THEN onceEnsure' = "complete" /\ eccStarts' = eccStarts + 1
    ELSE UNCHANGED <<onceEnsure, eccStarts>>

\* sys::generatePrivPubKeypair: ok is whether the random source and the EC
\* primitive worked, seed the randomness drawn
generatePrivPubKeypair(is_testnet, seed, ok) ==
    LET wif == IF is_testnet
               THEN (IF seed = 1 THEN "c1" ELSE "c2")
               ELSE (IF seed = 1 THEN "k1" ELSE "k2")
    IN  IF ok THEN [ret |-> 1, wif |-> wif, p2pkh |-> P2pkhOf(wif)]
        ELSE [ret |-> 0, wif |-> "", p2pkh |-> ""]

\* DogeWallet::new handing 0 for is_testnet to the native call
DogeWallet_new_mainnet(is_testnet, seed, ok) ==
    LET r == generatePrivPubKeypair(FALSE, seed, ok)
    IN  IF r.ret # 1 THEN <<>>
        ELSE <<[private_key |-> r.wif, address |-> r.p2pkh]>>

\* DogeWallet::new after its call_once: None is <<>>, Some(w) is <<w>>
DogeWallet_new(is_testnet, seed, ok) ==
    LET r == generatePrivPubKeypair(is_testnet, seed, ok)
    IN  IF r.ret # 1 THEN <<>>
        ELSE <<[private_key |-> r.wif, address |-> r.p2pkh]>>

\* the Base64 signature of message under key
SigOf(key, message) == "sig:" \o key \o ":" \o message

SigInputs == {SigOf("k1", "hello"), SigOf("c1", "hello"), SigOf("k1", ""),
              "", "not-base64!", "sig<NUL>"}

\* sys::sign_message: NULLPTR when the key does not decode
sign_message(privkey, message) ==
    IF ValidWif(privkey) THEN SigOf(privkey, message) ELSE NULLPTR

\* sys::verify_message: recovers the key from signature and message and
\* compares its address with the one given
verify_message(sig, message, address) ==
    IF \E k \in WifKeys : sig = SigOf(k, message) /\ P2pkhOf(k) = address
    THEN 1 ELSE 0

\* Message::sign after ensure_ecc_started
Message_sign(privkey_wif, message) ==
    IF CStringNewIsErr(privkey_wif) \/ CStringNewIsErr(message)
    THEN [res |-> "None", val |-> ""]
    ELSE LET sig_ptr == sign_message(privkey_wif, message)
         IN  IF sig_ptr = NULLPTR THEN [res |-> "None", val |-> ""]
             ELSE [res |-> "Some", val |-> sig_ptr]

\* Message::verify with .expect(..) in place of the match on CString::new
Message_verify_expect(signature_base64, message, address) ==
    IF \/ CStringNewIsErr(signature_base64)
       \/ CStringNewIsErr(message)
       \/ CStringNewIsErr(address)
    THEN "Panic"
    ELSE BoolOfInt(verify_message(signature_base64, message, address))

\* Message::verify after ensure_ecc_started
Message_verify(signature_base64, message, address) ==
    IF CStringNewIsErr(signature_base64) THEN "false"
    ELSE IF CStringNewIsErr(message) THEN "false"
    ELSE IF CStringNewIsErr(address) THEN "false"
    ELSE BoolOfInt(verify_message(signature_base64, message, address))

CallVal(op, args, res, val) == [op |-> op, args |-> args, res |-> res, err |-> "", val |-> val]

WalletNewCall ==
    /\ \E is_testnet \in BOOLEAN, seed \in 1..NumSeeds, ok \in BOOLEAN :
        LET w == DogeWallet_new(is_testnet, seed, ok)
        IN  /\ wallet_init_once
            /\ wallet' = w
            \* a DogeWallet held before is dropped; the stack buffer wif_privkey
            \* and the String of a dropped wallet are released as they are
            /\ mem' = mem \cup (IF w # <<>> THEN {"DogeWallet::new wif_privkey"} ELSE {})
                          \cup (IF wallet # <<>> THEN {"DogeWallet.private_key"} ELSE {})
            /\ last' = CallVal("DogeWallet::new", <<is_testnet>>,
                               IF w = <<>> THEN "None" ELSE "Some", "")
    /\ UNCHANGED <<bldvars, tx, pc, ncalls, onceEnsure, ctxLive, eccStops, hd, mn>>

\* drop of a DogeWallet: private_key is a plain String
WalletDrop ==
    /\ wallet # <<>>
    /\ wallet' = <<>>
    /\ mem' = mem \cup {"DogeWallet.private_key"}
    /\ last' = CallVal("drop DogeWallet", <<>>, "", "")
    /\ UNCHANGED <<bldvars, tx, eccvars, hd, mn>>

IsValidP2pkhCall ==
    /\ \E address \in AddrInputs \cup {wallet[i].address : i \in DOMAIN wallet} :
        last' = CallVal("is_valid_p2pkh", <<address>>,
                        IF is_valid_p2pkh(address) THEN "true" ELSE "false", "")
    /\ UNCHANGED <<tx, eccvars, keyvars, bldvars>>

NetworkCall ==
    /\ \E address \in AddrInputs \cup {wallet[i].address : i \in DOMAIN wallet} :
        last' = CallVal("network", <<address>>, network(address), "")
    /\ UNCHANGED <<tx, eccvars, keyvars, bldvars>>

MessageSignCall ==
    /\ \E privkey \in WifInputs \cup {wallet[i].private_key : i \in DOMAIN wallet},
          message \in MsgInputs :
        LET r == Message_sign(privkey, message)
        IN  /\ ensure_ecc_started
            \* the CString copy of the key, c_priv, is released as it is, on
            \* the early return for a message CString::new refuses as well
            /\ mem' = mem \cup (IF ValidWif(privkey) THEN {"Message::sign c_priv"} ELSE {})
            /\ last' = CallVal("sign_message", <<privkey, message>>, r.res, r.val)
    /\ UNCHANGED <<bldvars, tx, pc, ncalls, onceWallet, ctxLive, eccStops, wallet, hd, mn>>

MessageVerifyCall ==
    /\ \E sig \in SigInputs, message \in MsgInputs, address \in {"D1", "n1", "", "garbage", "D1<NUL>"} :
        /\ ensure_ecc_started
        /\ last' = CallVal("verify_message", <<sig, message, address>>,
                           Message_verify(sig, message, address), "")
    /\ UNCHANGED <<tx, pc, ncalls, onceWallet, ctxLive, eccStops, keyvars, bldvars>>

NextWallet ==
    \/ WalletNewCall
    \/ WalletDrop
    \/ IsValidP2pkhCall
    \/ NetworkCall
    \/ MessageSignCall
    \/ MessageVerifyCall

SpecWallet == Init /\ [][NextWallet]_vars

(***************************************************************************)
(* The HD Derivation Engine of the native library.  An ExtendedKey is its  *)
(* network tag, the root it descends from, the segments derived so far,    *)
(* whether it carries a private key, and its depth.  An address is the     *)
(* prefix of its network and the key it encodes.                           *)
(***************************************************************************)
MaxDepth == 255

Seg(index, hardened) == [index |-> index, hardened |-> hardened]

ExtKey(net, root, priv, depth) ==
    [net |-> net, root |-> root, path |-> <<>>, priv |-> priv, depth |-> depth]

Derived(ok, key, err) == [ok |-> ok, key |-> key, err |-> err]

\* master_from_seed: the depth 0 private key of a seed
master_from_seed(seed, is_testnet) ==
    ExtKey(IF is_testnet THEN "test" ELSE "main", seed, TRUE, 0)

derive_child(parent, segment) ==
    IF segment.hardened /\ ~parent.priv
    THEN Derived(FALSE, parent, "HardenedDerivationRequiresPrivateKey")
    ELSE IF parent.depth >= MaxDepth
    THEN Derived(FALSE, parent, "MaxDepthExceeded")
    ELSE Derived(TRUE, [parent EXCEPT !.path = Append(@, segment), !.depth = @ + 1], "Ok")

RECURSIVE derive_from(_, _, _)
\* derive_child folded over path from segment i on; on a failure key is the
\* key the segments before the failing one derived
derive_from(key, path, i) ==
    IF i > Len(path) THEN Derived(TRUE, key, "Ok")
    ELSE LET r == derive_child(key, path[i])
         IN  IF ~r.ok THEN r ELSE derive_from(r.key, path, i + 1)

derive_path(root, path) == derive_from(root, path, 1)

\* SLIP-44 coin type of the network of a key
coin_type(key) == IF key.net = "test" THEN 1 ELSE 3

bip44_path(coin, account, is_change, index) ==
    << Seg(44, TRUE), Seg(coin, TRUE), Seg(account, TRUE),
       Seg(IF is_change THEN 1 ELSE 0, FALSE), Seg(index, FALSE) >>

to_address(key) ==
    [prefix |-> IF key.net = "test" THEN "n" ELSE "D", root |-> key.root, path |-> key.path]

\* address_at: ok with the address, or the error of the first failing segment
address_at(root, account, index, is_change) ==
    LET r == derive_path(root, bip44_path(coin_type(root), account, is_change, index))
    IN  [ok |-> r.ok, addr |-> to_address(r.key), err |-> r.err]

(***************************************************************************)
(* The Mnemonic Engine: Mnemonic (mnemonic.rs) over the native library.    *)
(* A phrase is the sequence of its whitespace-separated words.             *)
(***************************************************************************)
MaxAccount == 1
MaxIndex   == 1

EntropyArgs == {"128", "160", "192", "224", "256", "64", "512", "0", "abc", "", "128<NUL>"}
PassArgs    == {"", "TREZOR", "pass<NUL>"}

SupportedBits == {128, 160, 192, 224, 256}

\* the number an entropy size text denotes, -1 when it denotes none
ParseBits(s) ==
    CASE s = "128" -> 128
      [] s = "160" -> 160
      [] s = "192" -> 192
      [] s = "224" -> 224
      [] s = "256" -> 256
      [] s = "64"  -> 64
      [] s = "512" -> 512
      [] s = "0"   -> 0
      [] OTHER     -> -1

WordList == <<"abandon", "about", "zoo">>

\* the wordlist entry of the i-th 11-bit group of the entropy seed stands for
WordOf(seed, i) == WordList[((seed + i) % Len(WordList)) + 1]

\* sys::generateRandomEnglishMnemonic: bits of entropy and bits/32 of
\* checksum, cut into groups of 11 bits; 0 is success
generateRandomEnglishMnemonic(size, seed, ok) ==
    LET bits == ParseBits(size)
    IN  IF bits \notin SupportedBits
        THEN [ret |-> -1, mnemonic |-> <<>>, err |-> "UnsupportedEntropySize"]
        ELSE IF ~ok
        THEN [ret |-> -1, mnemonic |-> <<>>, err |-> "CryptoFailure"]
        ELSE [ret |-> 0,
              mnemonic |-> [i \in 1..((bits + bits \div 32) \div 11) |-> WordOf(seed, i)],
              err |-> "Ok"]

RefPhrase == [i \in 1..12 |-> IF i = 12 THEN "about" ELSE "abandon"]

PhraseArgs == {RefPhrase, <<"not", "a", "mnemonic">>, <<"abandon<NUL>about">>}

\* CString::new(self.phrase.as_str()) is an error
PhraseHasNul(phrase) == \E i \in DOMAIN phrase : CStringNewIsErr(phrase[i])

\* sys::dogecoin_seed_from_mnemonic: the seed is a function of phrase and
\* passphrase that tells any two pairs apart
dogecoin_seed_from_mnemonic(phrase, passphrase) ==
    [ret |-> 0, seed |-> <<"seed", phrase, passphrase>>]

\* sys::getDerivedHDAddressFromMnemonic: change_level is "0" for the external
\* chain and "1" for the internal one; 0 is success
getDerivedHDAddressFromMnemonic(account, index, change_level, phrase, passphrase, is_testnet) ==
    LET s == dogecoin_seed_from_mnemonic(phrase, passphrase)
        a == address_at(master_from_seed(s.seed, is_testnet), account, index, change_level = "1")
    IN  IF change_level \notin {"0", "1"} \/ s.ret # 0 \/ ~a.ok
        THEN [ret |-> -1, out |-> <<>>]
        ELSE [ret |-> 0, out |-> <<a.addr>>]

MnRet(res, val, err) == [res |-> res, val |-> val, err |-> err]

\* Mnemonic::generate with the test of result inverted
Mnemonic_generate_inverted(entropy_size, seed, ok) ==
    IF CStringNewIsErr(entropy_size) THEN MnRet("None", <<>>, "")
    ELSE LET r == generateRandomEnglishMnemonic(entropy_size, seed, ok)
         IN  IF r.ret = 0 THEN MnRet("None", <<>>, r.err)
             ELSE MnRet("Some", <<[phrase |-> r.mnemonic]>>, r.err)

\* Mnemonic::generate without the test of result
Mnemonic_generate_unchecked(entropy_size, seed, ok) ==
    IF CStringNewIsErr(entropy_size) THEN MnRet("None", <<>>, "")
    ELSE LET r == generateRandomEnglishMnemonic(entropy_size, seed, ok)
         IN  MnRet("Some", <<[phrase |-> r.mnemonic]>>, r.err)

\* Mnemonic::generate after ensure_ecc_started
Mnemonic_generate(entropy_size, seed, ok) ==
    IF CStringNewIsErr(entropy_size) THEN MnRet("None", <<>>, "")
    ELSE LET r == generateRandomEnglishMnemonic(entropy_size, seed, ok)
         IN  IF r.ret # 0 THEN MnRet("None", <<>>, r.err)
             ELSE MnRet("Some", <<[phrase |-> r.mnemonic]>>, r.err)

\* Mnemonic::to_seed after ensure_ecc_started
Mnemonic_to_seed(phrase, passphrase) ==
    IF PhraseHasNul(phrase) \/ CStringNewIsErr(passphrase) THEN MnRet("None", <<>>, "")
    ELSE LET r == dogecoin_seed_from_mnemonic(phrase, passphrase)
         IN  IF r.ret # 0 THEN MnRet("None", <<>>, "")
             ELSE MnRet("Some", <<r.seed>>, "")

\* Mnemonic::derive_address after ensure_ecc_started
Mnemonic_derive_address(phrase, account, index, passphrase, is_testnet) ==
    IF PhraseHasNul(phrase) \/ CStringNewIsErr(passphrase) THEN MnRet("None", <<>>, "")
    ELSE LET r == getDerivedHDAddressFromMnemonic(account, index, "0", phrase, passphrase, is_testnet)
         IN  IF r.ret # 0 THEN MnRet("None", <<>>, "")
             ELSE MnRet("Some", r.out, "")

\* Mnemonic::derive_change_address after ensure_ecc_started
Mnemonic_derive_change_address(phrase, account, index, passphrase, is_testnet) ==
    IF PhraseHasNul(phrase) \/ CStringNewIsErr(passphrase) THEN MnRet("None", <<>>, "")
    ELSE LET r == getDerivedHDAddressFromMnemonic(account, index, "1", phrase, passphrase, is_testnet)
         IN  IF r.ret # 0 THEN MnRet("None", <<>>, "")
             ELSE MnRet("Some", r.out, "")

CallOf(op, args, r) == [op |-> op, args |-> args, res |-> r.res, err |-> r.err, val |-> r.val]

\* the variables no call on a Mnemonic touches
notMnemonic == <<bldvars, tx, pc, ncalls, onceWallet, ctxLive, eccStops, wallet, hd>>

MnemonicGenerateCall ==
    /\ \E entropy_size \in EntropyArgs, seed \in 1..NumSeeds, ok \in BOOLEAN :
        LET r == Mnemonic_generate(entropy_size, seed, ok)
        IN  /\ ensure_ecc_started
            \* a Mnemonic held before is dropped and its Zeroizing phrase wiped;
            \* the stack buffer mnemonic is released as it is
            /\ mn' = r.val
            /\ mem' = mem \cup (IF r.res = "Some" THEN {"Mnemonic::generate mnemonic"} ELSE {})
            /\ last' = CallOf("Mnemonic::generate", <<entropy_size>>, r)
    /\ UNCHANGED notMnemonic

MnemonicFromPhraseCall ==
    /\ \E phrase \in PhraseArgs :
        /\ mn' = <<[phrase |-> phrase]>>
        /\ last' = CallOf("Mnemonic::from_phrase", <<phrase>>, MnRet("Ok", mn', ""))
    /\ UNCHANGED <<notMnemonic, onceEnsure, eccStarts, mem>>

MnemonicToSeedCall ==
    /\ mn # <<>>
    /\ \E passphrase \in PassArgs :
        LET r == Mnemonic_to_seed(mn[1].phrase, passphrase)
        IN  /\ ensure_ecc_started
            \* mnemonic_cstr and the seed array are plain memory
            /\ mem' = mem \cup (IF ~PhraseHasNul(mn[1].phrase) THEN {"Mnemonic::to_seed mnemonic_cstr"} ELSE {})
                          \cup (IF r.res = "Some" THEN {"Mnemonic::to_seed seed"} ELSE {})
            /\ last' = CallOf("Mnemonic::to_seed", <<passphrase>>, r)
    /\ UNCHANGED <<notMnemonic, mn>>

MnemonicDeriveAddressCall ==
    /\ mn # <<>>
    /\ \E account \in 0..MaxAccount, index \in 0..MaxIndex,
          passphrase \in PassArgs, is_testnet \in BOOLEAN :
        LET r == Mnemonic_derive_address(mn[1].phrase, account, index, passphrase, is_testnet)
        IN  /\ ensure_ecc_started
            /\ mem' = mem \cup (IF ~PhraseHasNul(mn[1].phrase) THEN {"Mnemonic::derive_address mnemonic_cstr"} ELSE {})
            /\ last' = CallOf("Mnemonic::derive_address",
                              <<account, index, passphrase, is_testnet>>, r)
    /\ UNCHANGED <<notMnemonic, mn>>

MnemonicDeriveChangeAddressCall ==
    /\ mn # <<>>
    /\ \E account \in 0..MaxAccount, index \in 0..MaxIndex,
          passphrase \in PassArgs, is_testnet \in BOOLEAN :
        LET r == Mnemonic_derive_change_address(mn[1].phrase, account, index, passphrase, is_testnet)
        IN  /\ ensure_ecc_started
            /\ mem' = mem \cup (IF ~PhraseHasNul(mn[1].phrase) THEN {"Mnemonic::derive_change_address mnemonic_cstr"} ELSE {})
            /\ last' = CallOf("Mnemonic::derive_change_address",
                              <<account, index, passphrase, is_testnet>>, r)
    /\ UNCHANGED <<notMnemonic, mn>>

\* drop of a Mnemonic: Zeroizing overwrites the phrase
MnemonicDrop ==
    /\ mn # <<>>
    /\ mn' = <<>>
    /\ last' = CallOf("drop Mnemonic", <<>>, MnRet("", <<>>, ""))
    /\ UNCHANGED <<notMnemonic, onceEnsure, eccStarts, mem>>

NextMnemonic ==
    \/ MnemonicGenerateCall
    \/ MnemonicFromPhraseCall
    \/ MnemonicToSeedCall
    \/ MnemonicDeriveAddressCall
    \/ MnemonicDeriveChangeAddressCall
    \/ MnemonicDrop

SpecMnemonic == Init /\ [][NextMnemonic]_vars

(***************************************************************************)
(* HD wallets: HdWallet (hdwallet.rs) over the native library.  The last   *)
(* argument of the native derive calls is the constant 0 at every call     *)
(* site and is left out.                                                   *)
(***************************************************************************)
MasterKeyArgs == {"dgpv1", "dgub1", "tprv1", "dgpv255", "notakey", "", "dgpv<NUL>"}
PathArgs      == {"m", "m/0", "m/0'", "m/0/1'", "m/44'/3'/0'/0/0", "m/x", "", "m/0<NUL>"}

\* the ExtendedKey a serialized key decodes to; "dgpv255" is a private key
\* serialized at depth 255
DecodeExtKey(s) ==
    CASE s = "dgpv1"   -> [ok |-> TRUE, key |-> ExtKey("main", "r1", TRUE, 0)]
      [] s = "dgpv2"   -> [ok |-> TRUE, key |-> ExtKey("main", "r2", TRUE, 0)]
      [] s = "tprv1"   -> [ok |-> TRUE, key |-> ExtKey("test", "r1", TRUE, 0)]
      [] s = "tprv2"   -> [ok |-> TRUE, key |-> ExtKey("test", "r2", TRUE, 0)]
      [] s = "dgub1"   -> [ok |-> TRUE, key |-> ExtKey("main", "r1", FALSE, 0)]
      [] s = "dgpv255" -> [ok |-> TRUE, key |-> ExtKey("main", "r255", TRUE, MaxDepth)]
      [] OTHER         -> [ok |-> FALSE, key |-> ExtKey("", "", FALSE, 0)]

\* the DerivationPath a path text denotes
ParsePath(s) ==
    CASE s = "m"      -> [ok |-> TRUE, path |-> <<>>]
      [] s = "m/0"    -> [ok |-> TRUE, path |-> <<Seg(0, FALSE)>>]
      [] s = "m/0'"   -> [ok |-> TRUE, path |-> <<Seg(0, TRUE)>>]
      [] s = "m/0/1'" -> [ok |-> TRUE, path |-> <<Seg(0, FALSE), Seg(1, TRUE)>>]
      [] s = "m/44'/3'/0'/0/0" -> [ok |-> TRUE, path |-> bip44_path(3, 0, FALSE, 0)]
      [] OTHER        -> [ok |-> FALSE, path |-> <<>>]

\* sys::generateHDMasterPubKeypair: 1 is success
generateHDMasterPubKeypair(is_testnet, seed, ok) ==
    LET key == IF is_testnet
               THEN (IF seed = 1 THEN "tprv1" ELSE "tprv2")
               ELSE (IF seed = 1 THEN "dgpv1" ELSE "dgpv2")
    IN  IF ok THEN [ret |-> 1, hd_privkey |-> key] ELSE [ret |-> 0, hd_privkey |-> ""]

\* what a native derive call leaves: on a failure the out buffer is as it
\* was or, when partial, holds the address of the key the segments before
\* the failing one derived
NativeDerived(r, partial) ==
    IF r.ok THEN [ret |-> 1, out |-> <<to_address(r.key)>>, err |-> "Ok"]
    ELSE [ret |-> 0, out |-> IF partial THEN <<to_address(r.key)>> ELSE <<>>, err |-> r.err]

NativeRefused(err) == [ret |-> 0, out |-> <<>>, err |-> err]

\* sys::getDerivedHDAddressByPath: 1 is success
getDerivedHDAddressByPath(masterkey, derived_path, partial) ==
    LET k == DecodeExtKey(masterkey)
        p == ParsePath(derived_path)
    IN  IF ~k.ok \/ ~p.ok THEN NativeRefused("InvalidEncoding")
        ELSE NativeDerived(derive_path(k.key, p.path), partial)

\* sys::getDerivedHDAddress: 1 is success
getDerivedHDAddress(masterkey, account, ischange, addressindex, partial) ==
    LET k == DecodeExtKey(masterkey)
    IN  IF ~k.ok THEN NativeRefused("InvalidEncoding")
        ELSE NativeDerived(derive_path(k.key,
                 bip44_path(coin_type(k.key), account, ischange # 0, addressindex)), partial)

\* sys::generateDerivedHDPubkey: 1 is success
generateDerivedHDPubkey(masterkey) ==
    LET k == DecodeExtKey(masterkey)
    IN  IF ~k.ok THEN NativeRefused("InvalidEncoding")
        ELSE [ret |-> 1, out |-> <<to_address(k.key)>>, err |-> "Ok"]

HdRet(res, val, r) == [res |-> res, val |-> val, err |-> r.err, out |-> r.out]

\* HdWallet::new after ensure_ecc_started: None is <<>>, Some(w) is <<w>>
HdWallet_new(is_testnet, seed, ok) ==
    LET r == generateHDMasterPubKeypair(is_testnet, seed, ok)
    IN  IF r.ret # 1 THEN <<>>
        ELSE <<[master_key |-> r.hd_privkey, is_testnet |-> is_testnet]>>

\* HdWallet::derive_address without the test of result
HdWallet_derive_address_unchecked(master_key, account, index, is_change, partial) ==
    IF CStringNewIsErr(master_key) THEN HdRet("None", <<>>, NativeRefused(""))
    ELSE LET r == getDerivedHDAddress(master_key, account, IF is_change THEN 1 ELSE 0, index, partial)
         IN  HdRet("Some", r.out, r)

\* HdWallet::derive_address after ensure_ecc_started
HdWallet_derive_address(master_key, account, index, is_change, partial) ==
    IF CStringNewIsErr(master_key) THEN HdRet("None", <<>>, NativeRefused(""))
    ELSE LET r == getDerivedHDAddress(master_key, account, IF is_change THEN 1 ELSE 0, index, partial)
         IN  IF r.ret # 1 THEN HdRet("None", <<>>, r)
             ELSE HdRet("Some", r.out, r)

\* HdWallet::derive_by_path after ensure_ecc_started
HdWallet_derive_by_path(master_key, path, partial) ==
    IF CStringNewIsErr(master_key) \/ CStringNewIsErr(path)
    THEN HdRet("None", <<>>, NativeRefused(""))
    ELSE LET r == getDerivedHDAddressByPath(master_key, path, partial)
         IN  IF r.ret # 1 THEN HdRet("None", <<>>, r)
             ELSE HdRet("Some", r.out, r)

\* HdWallet::derive_new_address after ensure_ecc_started
HdWallet_derive_new_address(master_key) ==
    IF CStringNewIsErr(master_key) THEN HdRet("None", <<>>, NativeRefused(""))
    ELSE LET r == generateDerivedHDPubkey(master_key)
         IN  IF r.ret # 1 THEN HdRet("None", <<>>, r)
             ELSE HdRet("Some", r.out, r)

\* a call, what it returned, and the out buffer the native call left
CallOut(op, args, r) == CallOf(op, args, r) @@ [out |-> r.out]

\* the variables no call on an HdWallet touches
notHd == <<bldvars, tx, pc, ncalls, onceWallet, ctxLive, eccStops, wallet, mn>>

\* the CString copy of a master key a derive call releases as it is
MasterCstr(label) ==
    IF ~CStringNewIsErr(hd[1].master_key) /\ DecodeExtKey(hd[1].master_key).key.priv
    THEN {label} ELSE {}

HdWalletNewCall ==
    /\ \E is_testnet \in BOOLEAN, seed \in 1..NumSeeds, ok \in BOOLEAN :
        LET w == HdWallet_new(is_testnet, seed, ok)
        IN  /\ ensure_ecc_started
            /\ hd' = w
            \* an HdWallet held before is dropped; the stack buffer hd_privkey
            \* and the String of a dropped wallet are released as they are
            /\ mem' = mem \cup (IF w # <<>> THEN {"HdWallet::new hd_privkey"} ELSE {})
                          \cup (IF hd # <<>> THEN {"HdWallet.master_key"} ELSE {})
            /\ last' = CallOf("HdWallet::new", <<is_testnet>>,
                              MnRet(IF w = <<>> THEN "None" ELSE "Some", w, ""))
    /\ UNCHANGED notHd

HdWalletFromMasterKeyCall ==
    /\ \E master_key \in MasterKeyArgs, is_testnet \in BOOLEAN :
        /\ hd' = <<[master_key |-> master_key, is_testnet |-> is_testnet]>>
        /\ mem' = mem \cup (IF hd # <<>> THEN {"HdWallet.master_key"} ELSE {})
        /\ last' = CallOf("HdWallet::from_master_key", <<master_key, is_testnet>>,
                          MnRet("Ok", hd', ""))
    /\ UNCHANGED <<notHd, onceEnsure, eccStarts>>

HdWalletDeriveAddressCall ==
    /\ hd # <<>>
    /\ \E account \in 0..MaxAccount, index \in 0..MaxIndex,
          is_change \in BOOLEAN, partial \in BOOLEAN :
        LET r == HdWallet_derive_address(hd[1].master_key, account, index, is_change, partial)
        IN  /\ ensure_ecc_started
            /\ mem' = mem \cup MasterCstr("HdWallet::derive_address master_cstr")
            /\ last' = CallOut("HdWallet::derive_address", <<account, index, is_change>>, r)
    /\ UNCHANGED <<notHd, hd>>

HdWalletDeriveByPathCall ==
    /\ hd # <<>>
    /\ \E path \in PathArgs, partial \in BOOLEAN :
        LET r == HdWallet_derive_by_path(hd[1].master_key, path, partial)
        IN  /\ ensure_ecc_started
            /\ mem' = mem \cup MasterCstr("HdWallet::derive_by_path master_cstr")
            /\ last' = CallOut("HdWallet::derive_by_path", <<path>>, r)
    /\ UNCHANGED <<notHd, hd>>

HdWalletDeriveNewAddressCall ==
    /\ hd # <<>>
    /\ LET r == HdWallet_derive_new_address(hd[1].master_key)
       IN  /\ ensure_ecc_started
           /\ mem' = mem \cup MasterCstr("HdWallet::derive_new_address master_cstr")
           /\ last' = CallOut("HdWallet::derive_new_address", <<>>, r)
    /\ UNCHANGED <<notHd, hd>>

\* drop of an HdWallet: master_key is a plain String
HdWalletDrop ==
    /\ hd # <<>>
    /\ hd' = <<>>
    /\ mem' = mem \cup {"HdWallet.master_key"}
    /\ last' = CallOf("drop HdWallet", <<>>, MnRet("", <<>>, ""))
    /\ UNCHANGED <<notHd, onceEnsure, eccStarts>>

NextHd ==
    \/ HdWalletNewCall
    \/ HdWalletFromMasterKeyCall
    \/ HdWalletDeriveAddressCall
    \/ HdWalletDeriveByPathCall
    \/ HdWalletDeriveNewAddressCall
    \/ HdWalletDrop

SpecHd == Init /\ [][NextHd]_vars

(***************************************************************************)
(* The JSON-RPC client: DogeRpcClient (rpc.rs).  What comes back from the  *)
(* node is what ureq's send_json returns: a response with a success        *)
(* status, Error::Status with the code and the response, or another        *)
(* ureq::Error.  A body is no JSON at all, or a JSON object with these     *)
(* members: error absent, null, an object {code, message} or of another    *)
(* shape; result absent, null, a value of type T or of another type; id    *)
(* absent or present.  The request always serializes: its members are      *)
(* string slices and a serde_json::Value.                                  *)
(***************************************************************************)
ErrorMembers  == {"absent", "null", "object", "malformed"}
ResultMembers == {"absent", "null", "value", "illtyped"}
IdMembers     == {"absent", "present"}

JsonBody(error, result, id) == [json |-> TRUE, error |-> error, result |-> result, id |-> id]
NotJson == [json |-> FALSE, error |-> "absent", result |-> "absent", id |-> "absent"]

Bodies == {NotJson} \cup
          {JsonBody(e, r, i) : e \in ErrorMembers, r \in ResultMembers, i \in IdMembers}

HttpOk(body)           == [kind |-> "Ok", code |-> 200, body |-> body]
HttpStatus(code, body) == [kind |-> "Status", code |-> code, body |-> body]
HttpTransport          == [kind |-> "Transport", code |-> 0, body |-> NotJson]

Responses ==
    {HttpOk(b) : b \in Bodies}
        \cup {HttpStatus(c, b) : c \in {401, 404, 500}, b \in Bodies}
        \cup {HttpTransport}

\* r.into_json::<JsonRpcResponse<T>>(): result and error are Options, absent
\* and null both None; _id is a serde_json::Value and has to be there
into_json_response(body) ==
    IF ~body.json \/ body.id = "absent" \/ body.error = "malformed" \/ body.result = "illtyped"
    THEN [ok |-> FALSE, error |-> <<>>, result |-> <<>>]
    ELSE [ok |-> TRUE,
          error  |-> IF body.error = "object" THEN <<"error object">> ELSE <<>>,
          result |-> IF body.result = "value" THEN <<"result">> ELSE <<>>]

\* r.into_json::<serde_json::Value>().ok()
into_json_value(body) == IF body.json THEN <<body>> ELSE <<>>

RpcRet(res, val) == [res |-> res, val |-> val]

\* DogeRpcClient::call looking at result before error
call_result_first(resp) ==
    CASE resp.kind = "Ok" ->
            LET value == into_json_response(resp.body)
            IN  IF ~value.ok THEN RpcRet("Err(Deserialize)", <<>>)
                ELSE IF value.result # <<>> THEN RpcRet("Ok", value.result)
                ELSE IF value.error # <<>> THEN RpcRet("Err(Remote)", value.error)
                ELSE RpcRet("Err(MissingResult)", <<>>)
      [] resp.kind = "Status" ->
            RpcRet("Err(HttpStatus)", <<resp.code, into_json_value(resp.body)>>)
      [] OTHER -> RpcRet("Err(Transport)", <<>>)

\* DogeRpcClient::call, from the match on what send_json returned
call(resp) ==
    CASE resp.kind = "Ok" ->
            LET value == into_json_response(resp.body)
            IN  IF ~value.ok THEN RpcRet("Err(Deserialize)", <<>>)
                ELSE IF value.error # <<>> THEN RpcRet("Err(Remote)", value.error)
                ELSE IF value.result = <<>> THEN RpcRet("Err(MissingResult)", <<>>)
                ELSE RpcRet("Ok", value.result)
      [] resp.kind = "Status" ->
            RpcRet("Err(HttpStatus)", <<resp.code, into_json_value(resp.body)>>)
      [] OTHER -> RpcRet("Err(Transport)", <<>>)

RpcCallRecord(op, method, resp, r) ==
    [op |-> op, args |-> <<method, resp>>, res |-> r.res, err |-> "", val |-> r.val]

\* DogeRpcClient::call with a method of the caller's choice
RpcCall ==
    /\ \E method \in {"getblockcount", "getbalance"}, resp \in Responses :
        last' = RpcCallRecord("DogeRpcClient::call", method, resp, call(resp))
    /\ UNCHANGED <<tx, eccvars, keyvars, bldvars>>

\* DogeRpcClient::send_raw_transaction
RpcSendRawTransaction ==
    /\ \E resp \in Responses :
        last' = RpcCallRecord("DogeRpcClient::send_raw_transaction",
                              "sendrawtransaction", resp, call(resp))
    /\ UNCHANGED <<tx, eccvars, keyvars, bldvars>>

\* DogeRpcClient::list_unspent, also behind utxos_for_address
RpcListUnspent ==
    /\ \E resp \in Responses :
        last' = RpcCallRecord("DogeRpcClient::list_unspent", "listunspent", resp, call(resp))
    /\ UNCHANGED <<tx, eccvars, keyvars, bldvars>>

NextRpc == RpcCall \/ RpcSendRawTransaction \/ RpcListUnspent

SpecRpc == Init /\ [][NextRpc]_vars

(***************************************************************************)
(* Properties of the Transaction Builder, checked under SpecTx.  An action *)
(* formula reads tx as the builder before a call, tx' as the builder after *)
(* it and last' as the call and what it returned.                          *)
(***************************************************************************)
Failed(l) == l.res \in {"false", "None", "Panic"}

\* what the UTXOs of the builder are worth, less its outputs and a fee
Remainder(t, fee) == SumValues(t.inputs) - SumAmounts(t.outputs) - coins_to_koinu_str(fee)

\* C1: a finalize call on a builder that an earlier finalize has finalized
\* fails with InvalidState and returns no raw transaction.
C1_SecondFinalizeInvalidState ==
    [][(IsFrozen(tx) /\ last'.op = "finalize")
        => (last'.res = "None" /\ last'.err = "InvalidState")]_vars

\* C2: once the builder is finalized, every add_utxo and add_output call
\* fails with InvalidState and inputs and outputs stay as they were.
C2_NoAddAfterFinalize ==
    [][(IsFrozen(tx) /\ last'.op \in {"add_utxo", "add_output"})
        => /\ last'.res = "false"
           /\ last'.err = "InvalidState"
           /\ tx'.inputs = tx.inputs
           /\ tx'.outputs = tx.outputs]_vars

\* C3: once an input carries a signature, a finalize call fails with
\* InvalidState and the embedded signatures are unchanged.
C3_NoFinalizeAfterSign ==
    [][(AnySigned(tx) /\ last'.op = "finalize")
        => /\ last'.res = "None"
           /\ last'.err = "InvalidState"
           /\ tx'.sigs = tx.sigs]_vars

\* C4: in every state after a successful finalize, the values of the inputs
\* sum to the amounts of the outputs (change included) plus the fee.
C4_ValueConservation ==
    IsFrozen(tx) => SumValues(tx.inputs) = SumAmounts(tx.outputs) + tx.fee

\* C5: a finalize call on a builder whose inputs are worth less than its
\* outputs plus the fee fails with InsufficientFunds, returns no raw
\* transaction and does not finalize the builder.
C5_InsufficientFunds ==
    [][(/\ last'.op = "finalize"
        /\ ~IsFrozen(tx)
        /\ coins_to_koinu_str(last'.args[2]) >= 0
        /\ Remainder(tx, last'.args[2]) < 0)
        => /\ last'.res = "None"
           /\ last'.err = "InsufficientFunds"
           /\ ~IsFrozen(tx')]_vars

\* C6: an add_output call with an address the Address Classifier rejects
\* fails with InvalidAddress and leaves the output list as it was.
C6_InvalidAddressRejected ==
    [][(/\ last'.op = "add_output"
        /\ ~IsFrozen(tx)
        /\ ~is_valid_p2pkh(last'.args[1]))
        => /\ last'.res = "false"
           /\ last'.err = "InvalidAddress"
           /\ tx'.outputs = tx.outputs]_vars

\* the address a change output goes to
ChangeTarget(t, change_address) ==
    IF change_address # NoneOpt THEN change_address ELSE UtxoOrigin(t.inputs[1].txid)

\* a finalize call the builder has no ground to refuse
FinalizeCallable(t, l) ==
    /\ l.op = "finalize"
    /\ ~IsFrozen(t)
    /\ is_valid_p2pkh(l.args[1])
    /\ coins_to_koinu_str(l.args[2]) >= 0
    /\ l.args[3] = NoneOpt \/ is_valid_p2pkh(l.args[3])

\* C7: a finalize call that leaves a positive remainder appends exactly one
\* change output, carrying the remainder, to change_address or else to the
\* address of the first UTXO; with a zero remainder it appends nothing.
C7_ChangeOutput ==
    [][FinalizeCallable(tx, last')
        => /\ Remainder(tx, last'.args[2]) > 0
                => tx'.outputs = Append(tx.outputs,
                                        [address |-> ChangeTarget(tx, last'.args[3]),
                                         amount  |-> Remainder(tx, last'.args[2])])
           /\ Remainder(tx, last'.args[2]) = 0 => tx'.outputs = tx.outputs]_vars

C9_FailureLeavesBuilderAlone ==
    [][Failed(last') => (tx' = tx /\ last'.res # "Panic")]_vars

(***************************************************************************)
(* Properties of the ECC context, checked under SpecEcc.                   *)
(***************************************************************************)
\* C10: whatever entry points the threads race through, dogecoin_ecc_start
\* runs exactly once: never twice, and once as soon as a first use returned.
C10_EccStartedExactlyOnce ==
    /\ eccStarts <= 1
    /\ (\E t \in Threads : ncalls[t] > 0) => eccStarts = 1

\* C11: dogecoin_ecc_stop runs at most once, not before the process ends,
\* and once by then if the context was ever started.
C11_EccStoppedOnceAtExit ==
    /\ eccStops <= 1
    /\ eccStops = 1 => Exited
    /\ (Exited /\ eccStarts > 0) => eccStops = 1

MalformedVerifyInput(sig, message, address) ==
    \/ sig \in {"", "not-base64!", "sig<NUL>"}
    \/ CStringNewIsErr(message)
    \/ ~is_valid_p2pkh(address)

C14_SignVerifyRoundTrip ==
    (last.op = "sign_message" /\ ValidWif(last.args[1]))
        => /\ last.res = "Some"
           /\ Message_verify(last.val, last.args[2], P2pkhOf(last.args[1])) = "true"
           /\ \A m2 \in MsgInputs \ {last.args[2]} :
                Message_verify(last.val, m2, P2pkhOf(last.args[1])) = "false"

\* the network a DogeWallet::new call asked for
NetworkAsked(is_testnet) == IF is_testnet THEN "Testnet" ELSE "Mainnet"

\* C15: the address of every wallet DogeWallet::new returns is a valid
\* P2PKH address of the network asked for, starting with D or n.
C15_WalletAddressOfNetwork ==
    (last.op = "DogeWallet::new" /\ last.res = "Some")
        => /\ wallet # <<>>
           /\ is_valid_p2pkh(wallet[1].address)
           /\ network(wallet[1].address) = NetworkAsked(last.args[1])
           /\ B58Prefix(wallet[1].address) = (IF last.args[1] THEN "n" ELSE "D")

\* C15 witness: a test network wallet was generated.
C15_Witness ==
    /\ last.op = "DogeWallet::new"
    /\ last.res = "Some"
    /\ last.args[1] = TRUE
    /\ wallet # <<>>

(***************************************************************************)
(* Properties of the Mnemonic Engine, checked under SpecMnemonic.          *)
(***************************************************************************)
\* C16: every mnemonic generate returns for an entropy size of entropy_bits
\* has exactly entropy_bits/32*3 words: 12, 15, 18, 21 or 24.
C16_WordCount ==
    (last.op = "Mnemonic::generate" /\ last.res = "Some")
        => /\ mn = last.val
           /\ Len(mn[1].phrase) = (ParseBits(last.args[1]) \div 32) * 3
           /\ Len(mn[1].phrase) \in {12, 15, 18, 21, 24}

\* C16 witness: a mnemonic of 15 words was generated for 160 bits.
C16_Witness ==
    /\ last.op = "Mnemonic::generate"
    /\ last.args[1] = "160"
    /\ mn # <<>>
    /\ Len(mn[1].phrase) = 15

\* an entropy size text that denotes none of the five sizes
UnsupportedSize(entropy_size) ==
    CStringNewIsErr(entropy_size) \/ ParseBits(entropy_size) \notin SupportedBits

IsChangeCall(l) == l.op = "Mnemonic::derive_change_address"

\* C18: derive_address (is_change false) and derive_change_address (is_change
\* true) return, for every mnemonic, passphrase, account and index, the
\* address address_at gives for master_from_seed(to_seed(mnemonic, passphrase)),
\* on the external chain exactly when is_change is false.
C18_DeriveMatchesAddressAt ==
    (last.op \in {"Mnemonic::derive_address", "Mnemonic::derive_change_address"})
        => LET seed == <<"seed", mn[1].phrase, last.args[3]>>
               a    == address_at(master_from_seed(seed, last.args[4]),
                                  last.args[1], last.args[2], IsChangeCall(last))
           IN  /\ a.ok
               /\ last.res = "Some"
               /\ last.val = <<a.addr>>
               /\ last.val[1].path[4] = Seg(IF IsChangeCall(last) THEN 1 ELSE 0, FALSE)

(***************************************************************************)
(* Properties of HD wallets, checked under SpecHd.                         *)
(***************************************************************************)
\* the derivation a derive call of an HdWallet asks for: whether master key
\* and path are well formed, and what derive_path makes of them
DerivationAsked(master_key, l) ==
    LET k == DecodeExtKey(master_key)
        p == IF l.op = "HdWallet::derive_by_path"
             THEN (IF CStringNewIsErr(l.args[1]) THEN [ok |-> FALSE, path |-> <<>>]
                   ELSE ParsePath(l.args[1]))
             ELSE [ok |-> TRUE,
                   path |-> bip44_path(coin_type(k.key), l.args[1], l.args[3], l.args[2])]
        r == derive_path(k.key, p.path)
    IN  [ok |-> ~CStringNewIsErr(master_key) /\ k.ok /\ p.ok /\ r.ok, key |-> r.key]

C20_SecretsWipedOnDestruction ==
    mem = {}

(***************************************************************************)
(* The ECC context under the calls of one caller, checked under SpecTx.    *)
(***************************************************************************)
\* the calls that sign, recover or derive keys in the native library
EccUsingOps ==
    {"sign", "sign_with_privkey", "sign_message", "verify_message", "DogeWallet::new",
     "HdWallet::new", "HdWallet::derive_address", "HdWallet::derive_by_path",
     "HdWallet::derive_new_address", "Mnemonic::generate", "Mnemonic::to_seed",
     "Mnemonic::derive_address", "Mnemonic::derive_change_address"}

\* C21: whenever a call that signs, recovers or derives keys has gone on to
\* the native library, dogecoin_ecc_start has run before it and
\* dogecoin_ecc_stop has not.
C21_EccStartedBeforeUse ==
    (last.op \in EccUsingOps /\ last.res # "Panic")
        => (eccStarts > 0 /\ eccStops = 0)

(***************************************************************************)
(* Properties of the native handles, checked under SpecBuilders.           *)
(***************************************************************************)
\* every live builder holds a handle of its own with a transaction under it,
\* and no handle holds a transaction without a live builder
HandlesOwned(tbl, bld) ==
    /\ \A b \in Slots : bld[b].live => Allocated(tbl, bld[b].tx_index)
    /\ \A b1, b2 \in Slots :
        (bld[b1].live /\ bld[b2].live /\ b1 # b2) => bld[b1].tx_index # bld[b2].tx_index
    /\ \A h \in Handles :
        Allocated(tbl, h) => \E b \in Slots : bld[b].live /\ bld[b].tx_index = h

RpcOps == {"DogeRpcClient::call", "DogeRpcClient::send_raw_transaction",
           "DogeRpcClient::list_unspent"}

\* a body carrying a non-null error object, and one carrying a result
HasErrorObject(body) == body.json /\ body.error = "object"
HasResult(body)      == body.json /\ body.result \in {"value", "illtyped"}
NoError(body)        == body.json /\ body.error \in {"absent", "null"}

\* C23 as stated: of a response with a success status, a non-null error
\* object yields Err(Remote) even when a result is present, neither error
\* nor result yields Err(MissingResult); an HTTP error status yields
\* Err(HttpStatus) with its code; another transport failure yields
\* Err(Transport); Ok only when error is absent and result present; and
\* every outcome is one of these five.
C23_ResponseClassified ==
    last.op \in RpcOps
        => LET resp == last.args[2]
           IN  /\ (resp.kind = "Ok" /\ HasErrorObject(resp.body)) => last.res = "Err(Remote)"
               /\ (resp.kind = "Ok" /\ NoError(resp.body) /\ ~HasResult(resp.body))
                    => last.res = "Err(MissingResult)"
               /\ resp.kind = "Status"
                    => (last.res = "Err(HttpStatus)" /\ last.val[1] = resp.code)
               /\ resp.kind = "Transport" => last.res = "Err(Transport)"
               /\ last.res = "Ok" => (NoError(resp.body) /\ HasResult(resp.body))
               /\ last.res \in {"Ok", "Err(Remote)", "Err(MissingResult)",
                                "Err(HttpStatus)", "Err(Transport)"}

\* a body that reads as a JSON-RPC response with a result of type T
ReadsAsResponse(body) ==
    /\ body.json
    /\ body.id = "present"
    /\ body.error # "malformed"
    /\ body.result # "illtyped"

\* C23 amended: an HTTP error status yields Err(HttpStatus) with its code
\* whatever the body; another transport failure yields Err(Transport); a
\* body with a success status that does not read as a JSON-RPC response
\* yields Err(Deserialize); of a body that does, a non-null error object
\* yields Err(Remote) even when a result is present, neither error nor
\* result yields Err(MissingResult), and Ok(result) is returned exactly when
\* the error is absent or null and the result present.
C23_ClassifiedInOrder ==
    last.op \in RpcOps
        => LET resp == last.args[2]
               read == resp.kind = "Ok" /\ ReadsAsResponse(resp.body)
           IN  /\ resp.kind = "Status"
                    => (last.res = "Err(HttpStatus)" /\ last.val[1] = resp.code)
               /\ resp.kind = "Transport" => last.res = "Err(Transport)"
               /\ (resp.kind = "Ok" /\ ~ReadsAsResponse(resp.body))
                    => last.res = "Err(Deserialize)"
               /\ (read /\ HasErrorObject(resp.body)) => last.res = "Err(Remote)"
               /\ (read /\ ~HasErrorObject(resp.body) /\ ~HasResult(resp.body))
                    => last.res = "Err(MissingResult)"
               /\ last.res = "Ok"
                    <=> (read /\ ~HasErrorObject(resp.body) /\ HasResult(resp.body))

\* C23 witness: a response with a success status carried an error object and
\* a result, and the call returned Err(Remote).
C23_Witness ==
    /\ last.op = "DogeRpcClient::call"
    /\ last.args[2] = HttpOk(JsonBody("object", "value", "present"))
    /\ last.res = "Err(Remote)"
====
